---------------------------- MODULE Spec2Model ----------------------------
(***************************************************************************)
(* RProcMon: the process monitor's session loop (monitor.rs), the stealth  *)
(* configuration store and its interactive menu (stealth.rs) and the       *)
(* dispatch between them (main.rs).                                        *)
(*                                                                         *)
(* Strings are sequences of one-character strings, Option<T> is a sequence *)
(* of length 0 (None) or 1 (Some).                                         *)
(***************************************************************************)
EXTENDS Integers, Sequences, FiniteSets, TLC

\* Number of sampling cycles explored before the loop is cut off.
MaxCycles == 2

\* Number of input events that may wait unread in the terminal.
MaxPending == 1

----------------------------------------------------------------------------
(* Strings *)

None == <<>>
Some(x) == <<x>>

Upper == <<"A","B","C","D","E","F","G","H","I","J","K","L","M",
           "N","O","P","Q","R","S","T","U","V","W","X","Y","Z">>
Lower == <<"a","b","c","d","e","f","g","h","i","j","k","l","m",
           "n","o","p","q","r","s","t","u","v","w","x","y","z">>

\* char::to_lowercase on the ASCII letters
LowerChar(c) ==
    IF \E i \in 1..26 : Upper[i] = c
    THEN Lower[CHOOSE i \in 1..26 : Upper[i] = c]
    ELSE c

\* str::to_lowercase
to_lowercase(s) == [i \in 1..Len(s) |-> LowerChar(s[i])]

\* str::contains(&str): t occurs in s as a contiguous substring
contains(s, t) ==
    \E i \in 1..(Len(s) - Len(t) + 1) : SubSeq(s, i, i + Len(t) - 1) = t

\* Iterator::any over a Vec: membership of a value in a sequence
VecContains(v, x) == \E i \in 1..Len(v) : v[i] = x

\* Vec::retain(|p| p != x)
RECURSIVE Retain(_, _)
Retain(v, x) ==
    IF v = <<>> THEN <<>>
    ELSE IF Head(v) = x THEN Retain(Tail(v), x)
         ELSE <<Head(v)>> \o Retain(Tail(v), x)

----------------------------------------------------------------------------
(* The process table the metrics source can report (sysinfo) *)

sChrome   == <<"C","h","r","o","m","e">>
sSshd     == <<"s","s","h","d">>
sMiner    == <<"m","i","n","e","r">>
sChromeLc == <<"c","h","r","o","m","e">>
sSsh      == <<"s","s","h">>
sBrowser  == <<"b","r","o","w","s","e","r">>
sChromeExe   == <<"c","h","r","o","m","e",".","e","x","e">>
sChromeExeUc == <<"C","h","r","o","m","e",".","E","X","E">>

\* ProcessInfo values built from one sysinfo process entry; cpu_usage in
\* tenths of a percent.
ProcessInfo(pid, name, cmd, cpu, exe) ==
    [pid |-> pid, name |-> name, cmd |-> cmd, cpu_usage |-> cpu, exe_path |-> exe]

ProcTable ==
    << ProcessInfo(10, sChrome, <<sChrome>>, 300, None),
       ProcessInfo(4242, sMiner, <<>>, 300, Some(sMiner)),
       ProcessInfo(77, sSshd, <<sSshd, sSsh>>, 600, Some(sSshd)) >>

AllPids == { ProcTable[i].pid : i \in 1..Len(ProcTable) }

\* System::processes() after refresh_all: the entries of the table that are
\* alive, in the table's enumeration order.
RECURSIVE Enumerate(_, _)
Enumerate(table, alive) ==
    IF table = <<>> THEN <<>>
    ELSE IF Head(table).pid \in alive
         THEN <<Head(table)>> \o Enumerate(Tail(table), alive)
         ELSE Enumerate(Tail(table), alive)

----------------------------------------------------------------------------
(* StealthConfig and the StealthManager operations (stealth.rs) *)

EmptyMap == [k \in {} |-> <<>>]

\* impl Default for StealthConfig
DefaultConfig ==
    [hidden_processes |-> <<>>, renamed_processes |-> EmptyMap, hidden_pids |-> <<>>]

\* hide_process without the contains test.
hide_process_AlwaysPushes(config, process_name) ==
    [config EXCEPT !.hidden_processes = Append(@, process_name)]

hide_process(config, process_name) ==
    IF ~VecContains(config.hidden_processes, process_name)
    THEN [config EXCEPT !.hidden_processes = Append(@, process_name)]
    ELSE config

\* unhide_process emptying the list of hidden names.
unhide_process_DropsEveryName(config, process_name) ==
    [config EXCEPT !.hidden_processes = <<>>]

unhide_process(config, process_name) ==
    [config EXCEPT !.hidden_processes = Retain(@, process_name)]

hide_pid(config, pid) ==
    IF ~VecContains(config.hidden_pids, pid)
    THEN [config EXCEPT !.hidden_pids = Append(@, pid)]
    ELSE config

unhide_pid(config, pid) ==
    [config EXCEPT !.hidden_pids = Retain(@, pid)]

\* HashMap::insert
rename_process(config, original_name, display_name) ==
    [config EXCEPT !.renamed_processes =
        [k \in (DOMAIN @) \cup {original_name} |->
            IF k = original_name THEN display_name ELSE @[k]]]

\* HashMap::remove
remove_rename(config, original_name) ==
    [config EXCEPT !.renamed_processes =
        [k \in (DOMAIN @) \ {original_name} |-> @[k]]]

clear_all(config) == DefaultConfig

is_process_hidden(config, process_name) ==
    \E i \in 1..Len(config.hidden_processes) :
        contains(to_lowercase(process_name), to_lowercase(config.hidden_processes[i]))

is_pid_hidden(config, pid) == VecContains(config.hidden_pids, pid)

\* The orders in which a HashMap with these keys may be iterated.
IterOrders(keys) ==
    { o \in [1..Cardinality(keys) -> keys] :
        \A i, j \in 1..Cardinality(keys) : i # j => o[i] # o[j] }

\* get_display_name scanning for partial matches before the exact lookup.
get_display_name_PartialFirst(config, order, original_name) ==
    LET m == config.renamed_processes
        hits == { i \in 1..Len(order) :
                    contains(to_lowercase(original_name), to_lowercase(order[i])) }
    IN  IF hits # {} THEN m[order[CHOOSE i \in hits : \A j \in hits : i <= j]]
        ELSE IF original_name \in DOMAIN m THEN m[original_name]
        ELSE original_name

\* get_display_name, with the iteration order of renamed_processes given as
\* a sequence of its keys.
get_display_name(config, order, original_name) ==
    LET m == config.renamed_processes
        hits == { i \in 1..Len(order) :
                    contains(to_lowercase(original_name), to_lowercase(order[i])) }
    IN  IF original_name \in DOMAIN m THEN m[original_name]
        ELSE IF hits # {} THEN m[order[CHOOSE i \in hits : \A j \in hits : i <= j]]
        ELSE original_name

\* str::parse::<u32>: an optional '+', then one or more decimal digits, the
\* value at most u32::MAX; None stands for Err.
Digits == <<"0","1","2","3","4","5","6","7","8","9">>
IsDigit(c) == \E i \in 1..10 : Digits[i] = c
DigitVal(c) == (CHOOSE i \in 1..10 : Digits[i] = c) - 1
\* u32::MAX, as decimal digits
U32MaxDigits == <<"4","2","9","4","9","6","7","2","9","5">>

RECURSIVE StripZeros(_)
StripZeros(s) ==
    IF s # <<>> /\ Head(s) = "0" THEN StripZeros(Tail(s)) ELSE s

\* a <= b for digit strings of the same length
DigitsLeq(a, b) ==
    \/ a = b
    \/ \E i \in 1..Len(a) :
          /\ DigitVal(a[i]) < DigitVal(b[i])
          /\ \A j \in 1..(i - 1) : a[j] = b[j]

FitsU32(digits) ==
    LET d == StripZeros(digits)
    IN  \/ Len(d) < Len(U32MaxDigits)
        \/ Len(d) = Len(U32MaxDigits) /\ DigitsLeq(d, U32MaxDigits)

RECURSIVE DecimalValue(_)
DecimalValue(s) ==
    IF s = <<>> THEN 0
    ELSE DecimalValue(SubSeq(s, 1, Len(s) - 1)) * 10 + DigitVal(s[Len(s)])

parse_u32(s) ==
    LET body == IF s # <<>> /\ s[1] = "+" THEN Tail(s) ELSE s
    IN  IF body = <<>> \/ (\E i \in 1..Len(body) : ~IsDigit(body[i])) THEN None
        ELSE IF ~FitsU32(body) THEN None
        ELSE Some(DecimalValue(body))

\* The policy file on disk: absent, present but not parsable as a
\* StealthConfig, or the JSON of a StealthConfig.
FileAbsent  == [kind |-> "absent",  config |-> DefaultConfig]
FileCorrupt == [kind |-> "corrupt", config |-> DefaultConfig]
FileOf(config) == [kind |-> "valid", config |-> config]

\* load_config(path): the resulting file and the Result (None for Err).
\* write_ok says whether fs::write succeeds when the default is created.
load_config(file, write_ok) ==
    IF file.kind = "absent"
    THEN IF write_ok
         THEN [file |-> FileOf(DefaultConfig), result |-> Some(DefaultConfig)]
         ELSE [file |-> file, result |-> None]
    ELSE IF file.kind = "corrupt"
         THEN [file |-> file, result |-> None]
         ELSE [file |-> file, result |-> Some(file.config)]

\* Result::unwrap_or_default
unwrap_or_default(res) == IF res = None THEN DefaultConfig ELSE res[1]

\* StealthManager::new: the file after the load and the manager's config.
StealthManager_new(file, write_ok) ==
    LET l == load_config(file, write_ok)
    IN  [file |-> l.file, config |-> unwrap_or_default(l.result)]

----------------------------------------------------------------------------
(* ProcessMonitor (monitor.rs) *)

\* The alive sets the metrics source may report after a refresh.
AliveSets == { {}, {77}, {10, 77}, {10, 4242, 77} }

\* The second Local::now() shows at the next sample: run sleeps
\* args.interval seconds after every sample, one second or more for every
\* interval but 0.
NextSeconds(time) == {time + 1}

\* Keys the terminal can deliver to event::read.
Keys == {"q", "s", "c", "e"}

\* Events event::read can deliver that are not Event::Key.
NonKeyEvents == {"resize"}

\* The rows display_processes prints at most.
MAX_ROWS == 20

Pids(processes) == { processes[i].pid : i \in 1..Len(processes) }

\* The loop of collect_snapshot over self.system.processes(): the name
\* filter of the arguments is tested against the process name.
RECURSIVE FilterProcesses(_, _)
FilterProcesses(entries, filter) ==
    IF entries = <<>> THEN <<>>
    ELSE IF filter # None
            /\ ~contains(to_lowercase(Head(entries).name), to_lowercase(filter[1]))
         THEN FilterProcesses(Tail(entries), filter)
         ELSE <<Head(entries)>> \o FilterProcesses(Tail(entries), filter)

collect_snapshot(a, alive, time) ==
    [timestamp |-> time,
     processes |-> FilterProcesses(Enumerate(ProcTable, alive), a.filter)]

\* An insertion that puts a process ahead of the ones with equal cpu_usage.
RECURSIVE InsertByCpu_TiesReversed(_, _)
InsertByCpu_TiesReversed(sorted, p) ==
    IF sorted = <<>> THEN <<p>>
    ELSE IF Head(sorted).cpu_usage > p.cpu_usage
         THEN <<Head(sorted)>> \o InsertByCpu_TiesReversed(Tail(sorted), p)
         ELSE <<p>> \o sorted

\* sort_by(|a, b| b.cpu_usage.partial_cmp(&a.cpu_usage)): a stable sort by
\* descending cpu_usage.
RECURSIVE InsertByCpu(_, _)
InsertByCpu(sorted, p) ==
    IF sorted = <<>> THEN <<p>>
    ELSE IF Head(sorted).cpu_usage >= p.cpu_usage
         THEN <<Head(sorted)>> \o InsertByCpu(Tail(sorted), p)
         ELSE <<p>> \o sorted

RECURSIVE SortByCpu(_)
SortByCpu(processes) ==
    IF processes = <<>> THEN <<>>
    ELSE InsertByCpu(SortByCpu(SubSeq(processes, 1, Len(processes) - 1)),
                     processes[Len(processes)])

Take(seq, n) == SubSeq(seq, 1, IF Len(seq) < n THEN Len(seq) ELSE n)

\* display_processes: the process rows printed for a snapshot.
display_processes(snapshot) == Take(SortByCpu(snapshot.processes), MAX_ROWS)

\* [String]::join(" ")
RECURSIVE Join(_)
Join(words) ==
    IF words = <<>> THEN <<>>
    ELSE IF Len(words) = 1 THEN words[1]
    ELSE words[1] \o <<" ">> \o Join(Tail(words))

\* The lines display_processes prints under the row of one process.
sub_rows(a, process) ==
    IF a.verbose /\ process.cmd # <<>>
    THEN <<[kind |-> "CMD", text |-> Join(process.cmd)]>>
         \o (IF process.exe_path # None
             THEN <<[kind |-> "EXE", text |-> process.exe_path[1]]>>
             ELSE <<>>)
    ELSE <<>>

\* display_processes: the sub-rows, one sequence per printed row.
display_sub_rows(a, snapshot) ==
    LET rows == display_processes(snapshot)
    IN  [i \in 1..Len(rows) |-> sub_rows(a, rows[i])]

\* AlertedPids without the test that previous_processes is non-empty.
AlertedPids_NoFirstCycleTest(a, snapshot, previous) ==
    LET new_pids == Pids(snapshot.processes) \ DOMAIN previous
    IN  IF a.alert /\ new_pids # {} THEN new_pids ELSE {}

\* check_for_new_processes, first part: the PIDs printed in the
\* "NEW PROCESSES DETECTED" panel; the empty set when no panel is printed.
AlertedPids(a, snapshot, previous) ==
    LET current_pids  == Pids(snapshot.processes)
        previous_pids == DOMAIN previous
        new_pids      == current_pids \ previous_pids
    IN  IF a.alert /\ new_pids # {} /\ previous_pids # {}
        THEN new_pids
        ELSE {}

\* check_for_new_processes, second part: previous_processes rebuilt from
\* the snapshot.
UpdatePrevious(snapshot) ==
    [p \in Pids(snapshot.processes) |->
        LET i == CHOOSE j \in 1..Len(snapshot.processes) :
                    /\ snapshot.processes[j].pid = p
                    /\ \A k \in (j+1)..Len(snapshot.processes) :
                          snapshot.processes[k].pid # p
        IN  snapshot.processes[i]]

\* save_current_snapshot taking the oldest snapshot of the history.
LatestSnapshot_First(history) == history[1]

\* The snapshot save_current_snapshot serialises: self.snapshots.last().
LatestSnapshot(history) == history[Len(history)]

\* fs::write(filename, json) of save_current_snapshot; the file is named by
\* the snapshot's timestamp.
WriteSnapshotFile(files, latest) ==
    [t \in (DOMAIN files) \cup {latest.timestamp} |->
        IF t = latest.timestamp THEN latest ELSE files[t]]

\* save_all_snapshots serialising the latest snapshot only.
AllSnapshotsJson_LatestOnly(history) == <<history[Len(history)]>>

\* What save_all_snapshots serialises to the output path.
AllSnapshotsJson(history) == history

----------------------------------------------------------------------------
(* Lines typed into the stealth menu *)

Whitespace == {" ", "\n", "\t", "\r"}

RECURSIVE trim_start(_)
trim_start(s) ==
    IF s # <<>> /\ Head(s) \in Whitespace THEN trim_start(Tail(s)) ELSE s

RECURSIVE trim_end(_)
trim_end(s) ==
    IF s # <<>> /\ s[Len(s)] \in Whitespace
    THEN trim_end(SubSeq(s, 1, Len(s) - 1))
    ELSE s

\* str::trim
trim(s) == trim_end(trim_start(s))

\* A line as read_line returns it.
Line(s) == s \o <<"\n">>

NameLines    == { Line(sChromeLc), Line(sSsh) }
DisplayLines == { Line(sBrowser) }
PidLines     == { Line(<<"4","2","4","2">>), Line(<<" ","1","0">>), Line(<<"x","1">>),
                  Line(<<"4","2","9","4","9","6","7","2","9","6">>) }
BadChoices   == { Line(<<"0">>), Line(<<>>) }

----------------------------------------------------------------------------
(* State *)

VARIABLES
    pc,                  \* position in main / run / interactive_config
    args,                \* Args
    policy_file,         \* stealth_config.json
    stealth,             \* Option<StealthConfig>: the StealthManager's config
    now,                 \* Local::now(), in seconds
    snapshot,            \* Option<MonitorSnapshot>: the local of the loop body
    previous_processes,  \* ProcessMonitor.previous_processes
    snapshots,           \* ProcessMonitor.snapshots
    screen,              \* what the terminal shows: process rows, the sub-rows
                         \* under each of them, alert panel
    snap_files,          \* rprocmon_snapshot_<timestamp>.json files
    out_file,            \* Option: the content of the output path
    bulk_write,          \* Option: the content handed to fs::write(output_path)
    result,              \* what main returned: "none", "ok" or "err"
    count,               \* how often each step of the loop body has run
    pending,             \* input events the terminal holds, oldest first; each
                         \* with the number of polls done when it was issued
    menu_io,             \* the last exchange at the stealth menu
    iter_order,          \* iteration order of the manager's renamed_processes
    calls                \* the last two StealthManager calls, newest last

vars == <<pc, args, policy_file, stealth, now, snapshot, previous_processes,
          snapshots, screen, snap_files, out_file, bulk_write, result, count,
          pending, menu_io, iter_order, calls>>

OutputPath == <<"o","u","t">>

\* A policy file a user has saved in an earlier session.
SavedConfig ==
    [hidden_processes  |-> <<sChromeLc>>,
     renamed_processes |-> [k \in {sSsh} |-> sBrowser],
     hidden_pids       |-> <<4242>>]

\* The command lines tried.  With --filter main only runs the stealth menu,
\* which reads no other argument.
ArgsSet ==
    { [output |-> o, filter |-> None, alert |-> a, verbose |-> v] :
        o \in {None, Some(OutputPath)}, a \in BOOLEAN, v \in BOOLEAN }
    \cup { [output |-> None, filter |-> Some(sSsh), alert |-> FALSE, verbose |-> FALSE] }

\* The policy files a session may find.  Without --filter main never opens
\* the file, and one file with hide rules stands for all of them.
PolicyFiles(a) ==
    IF a.filter = None
    THEN {FileOf(SavedConfig)}
    ELSE {FileAbsent, FileCorrupt, FileOf(SavedConfig)}

BlankScreen == [rows |-> <<>>, sub |-> <<>>, alert |-> {}]

\* An exchange at the menu: the choice line, the lines read after it and
\* the message printed in answer.
Exchange(choice, lines, message) ==
    [choice |-> choice, lines |-> lines, message |-> message]

NoExchange == Exchange(<<>>, <<>>, "")

Init ==
    /\ pc = "start"
    /\ args \in ArgsSet
    /\ policy_file \in PolicyFiles(args)
    /\ stealth = None
    /\ now = 0
    /\ snapshot = None
    /\ previous_processes = EmptyMap
    /\ snapshots = <<>>
    /\ screen = BlankScreen
    /\ snap_files = EmptyMap
    /\ out_file = None
    /\ bulk_write = None
    /\ result = "none"
    /\ count = [sample |-> 0, render |-> 0, detect |-> 0, poll |-> 0, sleep |-> 0]
    /\ pending = <<>>
    /\ menu_io = NoExchange
    /\ iter_order = <<>>
    /\ calls = <<>>

monitorVars == <<now, snapshot, previous_processes, snapshots, screen,
                 snap_files, out_file, bulk_write, count, pending>>

\* State of the stealth menu and of the call log, untouched by run.
menuVars == <<menu_io, iter_order, calls>>

----------------------------------------------------------------------------
(* main *)

\* main with --filter: the stealth menu is run and main returns.
MainStealth ==
    /\ pc = "start"
    /\ args.filter # None
    /\ \E write_ok \in BOOLEAN :
          LET m == StealthManager_new(policy_file, write_ok)
          IN  /\ policy_file' = m.file
              /\ stealth' = Some(m.config)
              /\ iter_order' \in IterOrders(DOMAIN m.config.renamed_processes)
    /\ pc' = "menu"
    /\ UNCHANGED <<args, result, monitorVars, menu_io, calls>>

\* main without --filter: ProcessMonitor::new(args) and monitor.run().
MainMonitor ==
    /\ pc = "start"
    /\ args.filter = None
    /\ pc' = "sample"
    /\ UNCHANGED <<menuVars, args, policy_file, stealth, result, monitorVars>>

----------------------------------------------------------------------------
(* ProcessMonitor::run, one action per step of the loop body *)

Bump(field) == [count EXCEPT ![field] = @ + 1]

\* self.system.refresh_all(); let snapshot = self.collect_snapshot();
Sample ==
    /\ pc = "sample"
    /\ count.sample < MaxCycles
    /\ \E alive \in AliveSets, time \in NextSeconds(now) :
          /\ now' = time
          /\ snapshot' = Some(collect_snapshot(args, alive, time))
    /\ count' = Bump("sample")
    /\ pc' = "display"
    /\ UNCHANGED <<menuVars, pending, args, policy_file, stealth, previous_processes, snapshots,
                   screen, snap_files, out_file, bulk_write, result>>

\* display_processes sorting the snapshot itself instead of a clone.
Display_SortsSnapshot ==
    /\ pc = "display"
    /\ screen' = [screen EXCEPT !.rows = display_processes(snapshot[1]),
                                 !.sub = display_sub_rows(args, snapshot[1])]
    /\ snapshot' = Some([snapshot[1] EXCEPT !.processes = SortByCpu(@)])
    /\ count' = Bump("render")
    /\ pc' = "detect"
    /\ UNCHANGED <<menuVars, pending, args, policy_file, stealth, now,
                   previous_processes, snapshots, snap_files, out_file, bulk_write,
                   result>>

\* self.display_processes(&snapshot);
Display ==
    /\ pc = "display"
    /\ screen' = [screen EXCEPT !.rows = display_processes(snapshot[1]),
                                 !.sub = display_sub_rows(args, snapshot[1])]
    /\ count' = Bump("render")
    /\ pc' = "detect"
    /\ UNCHANGED <<menuVars, pending, args, policy_file, stealth, now, snapshot, previous_processes,
                   snapshots, snap_files, out_file, bulk_write, result>>

\* check_for_new_processes rebuilding previous_processes only inside the
\* alert branch.
Detect_UpdatesOnlyWhenAlerting ==
    /\ pc = "detect"
    /\ screen' = [screen EXCEPT
                    !.alert = AlertedPids(args, snapshot[1], previous_processes)]
    /\ previous_processes' = IF args.alert THEN UpdatePrevious(snapshot[1])
                                           ELSE previous_processes
    /\ snapshots' = Append(snapshots, snapshot[1])
    /\ snapshot' = None
    /\ count' = Bump("detect")
    /\ pc' = "poll"
    /\ UNCHANGED <<menuVars, pending, args, policy_file, stealth, now, snap_files, out_file,
                   bulk_write, result>>

\* self.check_for_new_processes(&snapshot); self.snapshots.push(snapshot);
Detect ==
    /\ pc = "detect"
    /\ screen' = [screen EXCEPT
                    !.alert = AlertedPids(args, snapshot[1], previous_processes)]
    /\ previous_processes' = UpdatePrevious(snapshot[1])
    /\ snapshots' = Append(snapshots, snapshot[1])
    /\ snapshot' = None
    /\ count' = Bump("detect")
    /\ pc' = "poll"
    /\ UNCHANGED <<menuVars, pending, args, policy_file, stealth, now, snap_files, out_file,
                   bulk_write, result>>

\* A key is pressed, or the terminal is resized, while run is at any point
\* of its loop: the event waits in the terminal until event::read takes it.
KeyPress ==
    /\ pc \in {"sample", "display", "detect", "poll", "sleep"}
    /\ Len(pending) < MaxPending
    /\ \E ev \in Keys \cup NonKeyEvents :
          pending' = Append(pending, [key |-> ev, at |-> count.poll])
    /\ UNCHANGED <<menuVars, pc, args, policy_file, stealth, now, snapshot,
                   previous_processes, snapshots, screen, snap_files, out_file,
                   bulk_write, result, count>>

\* event::poll(100 ms) returns false: no event is waiting.
PollNoEvent ==
    /\ pc = "poll"
    /\ pending = <<>>
    /\ count' = Bump("poll")
    /\ pc' = "sleep"
    /\ UNCHANGED <<menuVars, pending, args, policy_file, stealth, now, snapshot,
                   previous_processes, snapshots, screen, snap_files, out_file,
                   bulk_write, result>>

\* KeyCode::Char('q') => break
KeyQuit ==
    /\ pc = "poll"
    /\ pending # <<>> /\ Head(pending).key = "q"
    /\ pending' = Tail(pending)
    /\ count' = Bump("poll")
    /\ pc' = "stopped"
    /\ UNCHANGED <<menuVars, args, policy_file, stealth, now, snapshot,
                   previous_processes, snapshots, screen, snap_files, out_file,
                   bulk_write, result>>

\* The save command going on to the next sample without the sleep.
KeySave_SkipsSleep ==
    /\ pc = "poll"
    /\ pending # <<>> /\ Head(pending).key = "s"
    /\ pending' = Tail(pending)
    /\ count' = Bump("poll")
    /\ \E write_ok \in BOOLEAN :
          IF write_ok
          THEN /\ snap_files' = WriteSnapshotFile(snap_files, LatestSnapshot(snapshots))
               /\ pc' = "sample"
               /\ result' = result
          ELSE /\ snap_files' = snap_files
               /\ pc' = "exit_fail"
               /\ result' = "err"
    /\ UNCHANGED <<menuVars, args, policy_file, stealth, now, snapshot,
                   previous_processes, snapshots, screen, out_file, bulk_write>>

\* KeyCode::Char('s') => self.save_current_snapshot()?
\* A failed fs::write is returned from run by the ? operator.
KeySave ==
    /\ pc = "poll"
    /\ pending # <<>> /\ Head(pending).key = "s"
    /\ pending' = Tail(pending)
    /\ count' = Bump("poll")
    /\ \E write_ok \in BOOLEAN :
          IF write_ok
          THEN /\ snap_files' = WriteSnapshotFile(snap_files, LatestSnapshot(snapshots))
               /\ pc' = "sleep"
               /\ result' = result
          ELSE /\ snap_files' = snap_files
               /\ pc' = "exit_fail"
               /\ result' = "err"
    /\ UNCHANGED <<menuVars, args, policy_file, stealth, now, snapshot,
                   previous_processes, snapshots, screen, out_file, bulk_write>>

\* The clear command also dropping the history.
KeyClear_DropsHistory ==
    /\ pc = "poll"
    /\ pending # <<>> /\ Head(pending).key = "c"
    /\ pending' = Tail(pending)
    /\ count' = Bump("poll")
    /\ screen' = BlankScreen
    /\ snapshots' = <<>>
    /\ pc' = "sleep"
    /\ UNCHANGED <<menuVars, args, policy_file, stealth, now, snapshot,
                   previous_processes, snap_files, out_file, bulk_write, result>>

\* KeyCode::Char('c') => execute!(stdout(), Clear(ClearType::All))
KeyClear ==
    /\ pc = "poll"
    /\ pending # <<>> /\ Head(pending).key = "c"
    /\ pending' = Tail(pending)
    /\ count' = Bump("poll")
    /\ screen' = BlankScreen
    /\ pc' = "sleep"
    /\ UNCHANGED <<menuVars, args, policy_file, stealth, now, snapshot,
                   previous_processes, snapshots, snap_files, out_file, bulk_write,
                   result>>

\* An unrecognized key ending the loop as 'q' does.
KeyOther_Quits ==
    /\ pc = "poll"
    /\ pending # <<>>
    /\ Head(pending).key \in (Keys \ {"q", "s", "c"}) \cup NonKeyEvents
    /\ pending' = Tail(pending)
    /\ count' = Bump("poll")
    /\ pc' = "stopped"
    /\ UNCHANGED <<menuVars, args, policy_file, stealth, now, snapshot,
                   previous_processes, snapshots, screen, snap_files, out_file,
                   bulk_write, result>>

\* _ => {}, and an event that is not Event::Key
KeyOther ==
    /\ pc = "poll"
    /\ pending # <<>>
    /\ Head(pending).key \in (Keys \ {"q", "s", "c"}) \cup NonKeyEvents
    /\ pending' = Tail(pending)
    /\ count' = Bump("poll")
    /\ pc' = "sleep"
    /\ UNCHANGED <<menuVars, args, policy_file, stealth, now, snapshot,
                   previous_processes, snapshots, screen, snap_files, out_file,
                   bulk_write, result>>

\* A sleep that a waiting quit key cuts short.
Sleep_Interruptible ==
    /\ pc = "sleep"
    /\ screen' = BlankScreen
    /\ count' = Bump("sleep")
    /\ IF pending # <<>> /\ Head(pending).key = "q"
       THEN pending' = Tail(pending) /\ pc' = "stopped"
       ELSE pending' = pending /\ pc' = "sample"
    /\ UNCHANGED <<menuVars, args, policy_file, stealth, now, snapshot,
                   previous_processes, snapshots, snap_files, out_file, bulk_write,
                   result>>

\* thread::sleep(interval); execute!(stdout(), Clear(All), MoveTo(0, 0))
Sleep ==
    /\ pc = "sleep"
    /\ screen' = BlankScreen
    /\ count' = Bump("sleep")
    /\ pc' = "sample"
    /\ UNCHANGED <<menuVars, pending, args, policy_file, stealth, now, snapshot, previous_processes,
                   snapshots, snap_files, out_file, bulk_write, result>>

\* After the loop: if let Some(output_path) = &self.args.output
\*                     { self.save_all_snapshots(output_path)?; }  Ok(())
Finish ==
    /\ pc = "stopped"
    /\ IF args.output # None
       THEN /\ bulk_write' = Some(AllSnapshotsJson(snapshots))
            /\ \E write_ok \in BOOLEAN :
                  IF write_ok
                  THEN out_file' = bulk_write' /\ result' = "ok"
                  ELSE out_file' = out_file /\ result' = "err"
       ELSE /\ bulk_write' = bulk_write
            /\ out_file' = out_file
            /\ result' = "ok"
    /\ pc' = "exit_run"
    /\ UNCHANGED <<menuVars, pending, args, policy_file, stealth, now, snapshot, previous_processes,
                   snapshots, screen, snap_files, count>>

----------------------------------------------------------------------------
(* StealthManager::interactive_config, one action per menu option *)

editorFrame == <<args, policy_file, result, monitorVars, calls>>

Range(seq) == { seq[i] : i \in 1..Len(seq) }

\* The iteration orders a HashMap may have after insert(key, _): unchanged
\* when the key was present, any order of the keys otherwise.
OrdersAfterInsert(order, key) ==
    IF key \in Range(order) THEN {order} ELSE IterOrders(Range(order) \cup {key})

\* The iteration order after remove(key): the other entries stay in place.
OrderAfterRemove(order, key) == Retain(order, key)

Choice(digit) == Line(<<digit>>)

\* Option "1" writing the policy file at once.
Option1_SavesAtOnce ==
    /\ pc = "menu"
    /\ \E name \in NameLines :
          /\ stealth' = Some(hide_process(stealth[1], trim(name)))
          /\ menu_io' = Exchange(Choice("1"), <<name>>, "added to hidden list")
    /\ policy_file' = FileOf(stealth'[1])
    /\ UNCHANGED <<pc, iter_order, args, result, monitorVars, calls>>

\* "1": hide_process(name.trim())
Option1 ==
    /\ pc = "menu"
    /\ \E name \in NameLines :
          /\ stealth' = Some(hide_process(stealth[1], trim(name)))
          /\ menu_io' = Exchange(Choice("1"), <<name>>, "added to hidden list")
    /\ UNCHANGED <<pc, iter_order, editorFrame>>

\* Option "2" returning the parse error from interactive_config.
Option2_ParseErrorReturned ==
    /\ pc = "menu"
    /\ \E pid_input \in PidLines :
          LET parsed == parse_u32(trim(pid_input))
          IN  IF parsed # None
              THEN /\ stealth' = Some(hide_pid(stealth[1], parsed[1]))
                   /\ menu_io' = Exchange(Choice("2"), <<pid_input>>, "added to hidden list")
                   /\ pc' = pc
                   /\ result' = result
              ELSE /\ stealth' = stealth
                   /\ menu_io' = Exchange(Choice("2"), <<pid_input>>, "Invalid PID format")
                   /\ pc' = "exit_editor"
                   /\ result' = "err"
    /\ UNCHANGED <<iter_order, args, policy_file, monitorVars, calls>>

\* "2": hide_pid(pid) if the line parses as u32, else "Invalid PID format"
Option2 ==
    /\ pc = "menu"
    /\ \E pid_input \in PidLines :
          LET parsed == parse_u32(trim(pid_input))
          IN  IF parsed # None
              THEN /\ stealth' = Some(hide_pid(stealth[1], parsed[1]))
                   /\ menu_io' = Exchange(Choice("2"), <<pid_input>>, "added to hidden list")
              ELSE /\ stealth' = stealth
                   /\ menu_io' = Exchange(Choice("2"), <<pid_input>>, "Invalid PID format")
    /\ UNCHANGED <<pc, iter_order, editorFrame>>

\* "3": rename_process(original.trim(), display.trim())
Option3 ==
    /\ pc = "menu"
    /\ \E original \in NameLines, display \in DisplayLines :
          /\ stealth' = Some(rename_process(stealth[1], trim(original), trim(display)))
          /\ iter_order' \in OrdersAfterInsert(iter_order, trim(original))
          /\ menu_io' = Exchange(Choice("3"), <<original, display>>, "will display as")
    /\ UNCHANGED <<pc, editorFrame>>

\* "4": unhide_process(name.trim())
Option4 ==
    /\ pc = "menu"
    /\ \E name \in NameLines :
          /\ stealth' = Some(unhide_process(stealth[1], trim(name)))
          /\ menu_io' = Exchange(Choice("4"), <<name>>, "removed from hidden list")
    /\ UNCHANGED <<pc, iter_order, editorFrame>>

\* "5": unhide_pid(pid) if the line parses as u32, else "Invalid PID format"
Option5 ==
    /\ pc = "menu"
    /\ \E pid_input \in PidLines :
          LET parsed == parse_u32(trim(pid_input))
          IN  IF parsed # None
              THEN /\ stealth' = Some(unhide_pid(stealth[1], parsed[1]))
                   /\ menu_io' = Exchange(Choice("5"), <<pid_input>>, "removed from hidden list")
              ELSE /\ stealth' = stealth
                   /\ menu_io' = Exchange(Choice("5"), <<pid_input>>, "Invalid PID format")
    /\ UNCHANGED <<pc, iter_order, editorFrame>>

\* "6": remove_rename(name.trim())
Option6 ==
    /\ pc = "menu"
    /\ \E name \in NameLines :
          /\ stealth' = Some(remove_rename(stealth[1], trim(name)))
          /\ iter_order' = OrderAfterRemove(iter_order, trim(name))
          /\ menu_io' = Exchange(Choice("6"), <<name>>, "Rename mapping removed")
    /\ UNCHANGED <<pc, editorFrame>>

\* "7": display_current_config()
Option7 ==
    /\ pc = "menu"
    /\ menu_io' = Exchange(Choice("7"), <<>>, "Current Stealth Configuration")
    /\ UNCHANGED <<pc, stealth, iter_order, editorFrame>>

\* "8": clear_all()
Option8 ==
    /\ pc = "menu"
    /\ stealth' = Some(clear_all(stealth[1]))
    /\ iter_order' = <<>>
    /\ menu_io' = Exchange(Choice("8"), <<>>, "All stealth configurations cleared")
    /\ UNCHANGED <<pc, editorFrame>>

\* "9": self.save_config()?; break.  main returns Ok after the menu, and
\* Err when interactive_config returned the write error.
Option9 ==
    /\ pc = "menu"
    /\ \E write_ok \in BOOLEAN :
          IF write_ok
          THEN /\ policy_file' = FileOf(stealth[1])
               /\ result' = "ok"
               /\ menu_io' = Exchange(Choice("9"), <<>>, "Configuration saved!")
          ELSE /\ policy_file' = policy_file
               /\ result' = "err"
               /\ menu_io' = Exchange(Choice("9"), <<>>, "Error configuring stealth settings")
    /\ pc' = "exit_editor"
    /\ UNCHANGED <<args, stealth, iter_order, calls, monitorVars>>

\* _ => "Invalid option"
OptionInvalid ==
    /\ pc = "menu"
    /\ \E choice \in BadChoices :
          /\ trim(choice) \notin {<<"1">>, <<"2">>, <<"3">>, <<"4">>, <<"5">>,
                                  <<"6">>, <<"7">>, <<"8">>, <<"9">>}
          /\ menu_io' = Exchange(choice, <<>>, "Invalid option")
    /\ UNCHANGED <<pc, stealth, iter_order, editorFrame>>

----------------------------------------------------------------------------

Next ==
    \/ MainStealth \/ MainMonitor
    \/ Sample \/ Display \/ Detect
    \/ KeyPress
    \/ PollNoEvent \/ KeyQuit \/ KeySave \/ KeyClear \/ KeyOther
    \/ Sleep \/ Finish
    \/ Option1 \/ Option2 \/ Option3 \/ Option4 \/ Option5
    \/ Option6 \/ Option7 \/ Option8 \/ Option9 \/ OptionInvalid

Spec == Init /\ [][Next]_vars

----------------------------------------------------------------------------
(* The presenter on a machine with more processes than rows *)

\* The number of processes of the loaded machine.
TableSize == 22

\* A process table with ties in cpu_usage and every combination of empty
\* and non-empty command line and executable path.
BigTable ==
    [i \in 1..TableSize |->
        ProcessInfo(i, sSshd,
                    IF i % 2 = 0 THEN <<sSshd>> ELSE <<>>,
                    ((i * 3) % 4) * 100,
                    IF i % 3 = 0 THEN Some(sSshd) ELSE None)]

\* The sets of live processes tried: every run of consecutive table
\* entries, and the whole table but one entry.
BigAliveSets ==
    { {BigTable[i].pid : i \in lo..hi} : lo \in 1..TableSize, hi \in 0..TableSize }
    \cup { {BigTable[i].pid : i \in (1..TableSize) \ {k}} : k \in 1..TableSize }

\* run has been entered without --filter and without --output.
PresenterInit ==
    /\ pc = "sample"
    /\ args \in { a \in ArgsSet : a.filter = None /\ a.output = None /\ ~a.alert }
    /\ policy_file = FileOf(SavedConfig)
    /\ stealth = None
    /\ now = 0
    /\ snapshot = None
    /\ previous_processes = EmptyMap
    /\ snapshots = <<>>
    /\ screen = BlankScreen
    /\ snap_files = EmptyMap
    /\ out_file = None
    /\ bulk_write = None
    /\ result = "none"
    /\ count = [sample |-> 0, render |-> 0, detect |-> 0, poll |-> 0, sleep |-> 0]
    /\ pending = <<>>
    /\ menu_io = NoExchange
    /\ iter_order = <<>>
    /\ calls = <<>>

\* self.system.refresh_all(); let snapshot = self.collect_snapshot(); on the
\* loaded machine.
SampleLoaded ==
    /\ pc = "sample"
    /\ count.sample < MaxCycles
    /\ \E alive \in BigAliveSets, time \in NextSeconds(now) :
          /\ now' = time
          /\ snapshot' = Some([timestamp |-> time,
                               processes |-> FilterProcesses(Enumerate(BigTable, alive),
                                                             args.filter)])
    /\ count' = Bump("sample")
    /\ pc' = "display"
    /\ UNCHANGED <<menuVars, pending, args, policy_file, stealth, previous_processes,
                   snapshots, screen, snap_files, out_file, bulk_write, result>>

PresenterNext ==
    \/ SampleLoaded
    \/ Display

PresenterSpec == PresenterInit /\ [][PresenterNext]_vars

----------------------------------------------------------------------------
(* The StealthManager methods, called in any order on one manager *)

PolicyNames    == {sChromeLc, sSsh}
PolicyPids     == {4242}
RenameKeys     == {sChromeLc, sChromeExe}
RenameDisplays == {sBrowser, sMiner}
RawNames       == {sChromeExe, sChromeExeUc, sSshd}

\* The configurations a manager starts from: the default one and one
\* loaded from a saved file.
PolicyInits ==
    { DefaultConfig,
      [hidden_processes  |-> <<sChromeLc>>,
       renamed_processes |-> [k \in {sChromeLc} |-> sBrowser],
       hidden_pids       |-> <<4242>>] }

\* A manager has been built by the stealth menu's session.
PolicyInit ==
    /\ pc = "menu"
    /\ args = [output |-> None, filter |-> Some(sSsh), alert |-> FALSE, verbose |-> FALSE]
    /\ \E c \in PolicyInits :
          /\ stealth = Some(c)
          /\ policy_file = FileOf(c)
          /\ iter_order \in IterOrders(DOMAIN c.renamed_processes)
    /\ now = 0
    /\ snapshot = None
    /\ previous_processes = EmptyMap
    /\ snapshots = <<>>
    /\ screen = BlankScreen
    /\ snap_files = EmptyMap
    /\ out_file = None
    /\ bulk_write = None
    /\ result = "none"
    /\ count = [sample |-> 0, render |-> 0, detect |-> 0, poll |-> 0, sleep |-> 0]
    /\ pending = <<>>
    /\ menu_io = NoExchange
    /\ calls = <<>>

policyFrame == <<pc, args, policy_file, result, monitorVars, menu_io>>

\* The call log after one more call: the call before it and the new one.
Logged(op, arg, after, out) ==
    (IF calls = <<>> THEN <<>> ELSE <<calls[Len(calls)]>>)
    \o <<[op |-> op, arg |-> arg, before |-> stealth[1], after |-> after, out |-> out]>>

HideProcess ==
    /\ \E name \in PolicyNames :
          /\ stealth' = Some(hide_process(stealth[1], name))
          /\ calls' = Logged("hide_process", <<name>>, stealth'[1], None)
    /\ UNCHANGED <<policyFrame, iter_order>>

UnhideProcess ==
    /\ \E name \in PolicyNames :
          /\ stealth' = Some(unhide_process(stealth[1], name))
          /\ calls' = Logged("unhide_process", <<name>>, stealth'[1], None)
    /\ UNCHANGED <<policyFrame, iter_order>>

HidePid ==
    /\ \E pid \in PolicyPids :
          /\ stealth' = Some(hide_pid(stealth[1], pid))
          /\ calls' = Logged("hide_pid", <<pid>>, stealth'[1], None)
    /\ UNCHANGED <<policyFrame, iter_order>>

UnhidePid ==
    /\ \E pid \in PolicyPids :
          /\ stealth' = Some(unhide_pid(stealth[1], pid))
          /\ calls' = Logged("unhide_pid", <<pid>>, stealth'[1], None)
    /\ UNCHANGED <<policyFrame, iter_order>>

RenameProcess ==
    /\ \E key \in RenameKeys, display \in RenameDisplays :
          /\ stealth' = Some(rename_process(stealth[1], key, display))
          /\ iter_order' \in OrdersAfterInsert(iter_order, key)
          /\ calls' = Logged("rename_process", <<key, display>>, stealth'[1], None)
    /\ UNCHANGED policyFrame

RemoveRename ==
    /\ \E key \in RenameKeys :
          /\ stealth' = Some(remove_rename(stealth[1], key))
          /\ iter_order' = OrderAfterRemove(iter_order, key)
          /\ calls' = Logged("remove_rename", <<key>>, stealth'[1], None)
    /\ UNCHANGED policyFrame

ClearAll ==
    /\ stealth' = Some(clear_all(stealth[1]))
    /\ iter_order' = <<>>
    /\ calls' = Logged("clear_all", <<>>, stealth'[1], None)
    /\ UNCHANGED policyFrame

\* get_display_name on a manager that iterates its map afresh, in any
\* order, at every call.
Resolve_ReorderedEachCall ==
    /\ \E raw \in RawNames, order \in IterOrders(DOMAIN stealth[1].renamed_processes) :
          calls' = Logged("get_display_name", <<raw>>, stealth[1],
                          Some(get_display_name(stealth[1], order, raw)))
    /\ UNCHANGED <<policyFrame, stealth, iter_order>>

\* get_display_name(raw): the map is iterated in the order it has.
Resolve ==
    /\ \E raw \in RawNames :
          calls' = Logged("get_display_name", <<raw>>, stealth[1],
                          Some(get_display_name(stealth[1], iter_order, raw)))
    /\ UNCHANGED <<policyFrame, stealth, iter_order>>

PolicyNext ==
    \/ HideProcess
    \/ UnhideProcess
    \/ HidePid
    \/ UnhidePid
    \/ RenameProcess
    \/ RemoveRename
    \/ ClearAll
    \/ Resolve

PolicySpec == PolicyInit /\ [][PolicyNext]_vars

----------------------------------------------------------------------------
(* Session states of the specification, read off the program position *)

State ==
    CASE pc = "start" -> "Starting"
      [] pc \in {"sample", "display", "detect", "poll", "sleep"} -> "Running"
      [] pc = "menu" -> "Editing"
      [] pc \in {"stopped", "exit_run"} -> "Stopped"
      [] pc = "exit_fail" -> "Failed"
      [] pc = "exit_editor" -> "Exited"

\* is_hidden(raw_name, pid) of the policy
IsHidden(config, p) ==
    is_pid_hidden(config, p.pid) \/ is_process_hidden(config, p.name)

\* Every snapshot the monitor holds: the history and the one being built.
HeldSnapshots ==
    { snapshots[i] : i \in 1..Len(snapshots) } \cup { snapshot[i] : i \in 1..Len(snapshot) }

IsPrefix(a, b) == Len(a) <= Len(b) /\ SubSeq(b, 1, Len(a)) = a

PreviousPids == Pids(snapshots[Len(snapshots) - 1].processes)
CurrentPids  == Pids(snapshots[Len(snapshots)].processes)

----------------------------------------------------------------------------
(* Claims *)

\* C1: no snapshot built by the sampling loop, and no rendered row, holds a
\* process whose PID is in the policy's hidden_pids or whose raw name
\* contains one of its hidden names case-insensitively.
C1_NoHiddenProcessInSnapshot ==
    /\ \A snap \in HeldSnapshots : \A i \in 1..Len(snap.processes) :
          ~IsHidden(policy_file.config, snap.processes[i])
    /\ \A i \in 1..Len(screen.rows) : ~IsHidden(policy_file.config, screen.rows[i])

\* C2: on every cycle after the first, with alerting on, the PIDs reported
\* as new are exactly those of the current snapshot that are absent from the
\* previous snapshot, whatever the previous snapshot held.
C2_NewPidsAreExactlyTheDifference ==
    (pc = "poll" /\ args.alert /\ Len(snapshots) >= 2)
        => screen.alert = CurrentPids \ PreviousPids

\* C3: the alert panel is on the screen only if alerting is enabled, the
\* cycle is not the first one and the set of new PIDs is non-empty; in the
\* first cycle nothing is reported as new.
C3_AlertPanelOnlyWhenDue ==
    /\ screen.alert # {} =>
          /\ args.alert
          /\ Len(snapshots) >= 2
          /\ screen.alert = CurrentPids \ PreviousPids
    /\ count.detect <= 1 => screen.alert = {}

C3_Witness ==
    /\ pc = "poll"
    /\ Len(snapshots) = 2
    /\ snapshots[1].processes # <<>>
    /\ screen.alert = {4242}

\* C4: a failed write of the snapshot file on the save command does not end
\* the session: run never returns the error.
C4_SaveFailureIsNotFatal == ~(pc = "exit_fail" /\ result = "err")

\* C5: while the policy file is unparsable it is never replaced, no policy
\* is loaded in its place and the menu is never entered.
C5_CorruptPolicyIsFatal ==
    [][policy_file.kind = "corrupt" =>
          /\ policy_file' = policy_file
          /\ stealth' = None
          /\ pc' # "menu"]_vars

\* C6: when run has left the loop through quit and an output path is
\* configured, the whole history, one snapshot per cycle performed, is
\* handed to the write of that path, and the file holds it when run
\* returns Ok.
C6_StoppedWritesFullHistory ==
    (pc = "exit_run" /\ args.output # None) =>
        /\ Len(snapshots) = count.sample
        /\ bulk_write = Some(snapshots)
        /\ result = "ok" => out_file = Some(snapshots)

C6_Witness ==
    /\ pc = "exit_run"
    /\ args.output # None
    /\ result = "ok"
    /\ Len(snapshots) = 2
    /\ out_file = Some(snapshots)

\* C7: the history holds one snapshot per completed cycle and every step,
\* every command included, leaves the existing elements in place and
\* appends at most one.
C7_HistoryAppendOnly ==
    /\ [](Len(snapshots) = count.detect)
    /\ [](pc = "sample" => Len(snapshots) = count.sleep)
    /\ [][/\ IsPrefix(snapshots, snapshots')
          /\ Len(snapshots') <= Len(snapshots) + 1
          /\ pc = "poll" => snapshots' = snapshots]_vars

C7_Witness ==
    /\ pc = "sample"
    /\ count.sleep = 2
    /\ Len(snapshots) = 2
    /\ snap_files # EmptyMap
    /\ snapshots[1] # snapshots[2]

\* C8: each tick has exactly one sample and one render, with or without a
\* command, and a cycle's sampling starts only after the previous cycle's
\* render, detection and command handling are done.
C8_OnePassPerTick ==
    /\ pc \in {"start", "sample"} =>
          /\ count.render = count.sample
          /\ count.detect = count.sample
          /\ count.poll = count.sample
          /\ count.sleep = count.sample
    /\ pc = "display" =>
          /\ count.sample = count.sleep + 1
          /\ count.render = count.sleep
          /\ count.detect = count.sleep
          /\ count.poll = count.sleep
    /\ pc = "detect" =>
          /\ count.sample = count.sleep + 1
          /\ count.render = count.sleep + 1
          /\ count.detect = count.sleep
          /\ count.poll = count.sleep
    /\ pc = "poll" =>
          /\ count.sample = count.sleep + 1
          /\ count.render = count.sleep + 1
          /\ count.detect = count.sleep + 1
          /\ count.poll = count.sleep
    /\ pc \in {"sleep", "stopped", "exit_run", "exit_fail"} =>
          /\ count.sample = count.sleep + 1
          /\ count.render = count.sleep + 1
          /\ count.detect = count.sleep + 1
          /\ count.poll = count.sleep + 1

C8_Witness ==
    /\ pc = "display"
    /\ count.sample = 2
    /\ count.poll = 1
    /\ snap_files # EmptyMap

\* C9: the menu is entered only from Running, and when it is left the
\* session is Running again.
C9_EditingBetweenRunning ==
    [][/\ (State # "Editing" /\ State' = "Editing") => State = "Running"
       /\ (State = "Editing" /\ State' # "Editing") => State' = "Running"]_vars

\* C10: with a name filter configured the sampling loop runs, and every
\* process of every snapshot is not hidden and has a display name that
\* contains the filter case-insensitively.
C10_FilterRunsSamplingOnDisplayNames ==
    args.filter # None =>
        /\ State \in {"Starting", "Running", "Stopped"}
        /\ \A snap \in HeldSnapshots : \A i \in 1..Len(snap.processes) :
              /\ ~IsHidden(policy_file.config, snap.processes[i])
              /\ \E order \in IterOrders(DOMAIN policy_file.config.renamed_processes) :
                    contains(to_lowercase(get_display_name(policy_file.config, order,
                                                           snap.processes[i].name)),
                             to_lowercase(args.filter[1]))

\* The names and PIDs whose hidden status is compared.
ProbeNames == PolicyNames \cup RawNames
ProbePids  == PolicyPids \cup {10}

\* The call log ends with hide_process(n) followed by unhide_process(n).
HiddenThenUnhidden ==
    /\ Len(calls) = 2
    /\ calls[1].op = "hide_process"
    /\ calls[2].op = "unhide_process"
    /\ calls[1].arg = calls[2].arg

SameHiddenStatus(c1, c2) ==
    \A name \in ProbeNames, pid \in ProbePids :
        IsHidden(c1, [name |-> name, pid |-> pid])
            <=> IsHidden(c2, [name |-> name, pid |-> pid])

\* C11 as stated: after hide_process(n), n is hidden for every PID, and
\* after unhide_process(n) the hidden status of n and of every other name
\* is what it was before the hide_process(n).
C11_UnhideRestoresEveryStatus ==
    /\ \A i \in 1..Len(calls) :
          calls[i].op = "hide_process" =>
             \A pid \in ProbePids :
                 IsHidden(calls[i].after, [name |-> calls[i].arg[1], pid |-> pid])
    /\ HiddenThenUnhidden => SameHiddenStatus(calls[2].after, calls[1].before)

\* C11, amended: after hide_process(n), n is hidden for every PID; when n
\* was not an entry of hidden_processes before the hide_process(n), the
\* configuration after unhide_process(n) is the one before hide_process(n),
\* so every hidden status is as before.
C11_UnhideRestoresWhenNameWasNew ==
    /\ \A i \in 1..Len(calls) :
          calls[i].op = "hide_process" =>
             \A pid \in ProbePids :
                 IsHidden(calls[i].after, [name |-> calls[i].arg[1], pid |-> pid])
    /\ (HiddenThenUnhidden
          /\ ~VecContains(calls[1].before.hidden_processes, calls[1].arg[1])) =>
             /\ calls[2].after = calls[1].before
             /\ SameHiddenStatus(calls[2].after, calls[1].before)

C11_Witness ==
    /\ HiddenThenUnhidden
    /\ calls[1].arg = <<sSsh>>
    /\ calls[1].before.hidden_processes = <<sChromeLc>>
    /\ calls[1].after.hidden_processes = <<sChromeLc, sSsh>>
    /\ calls[2].after.hidden_processes = <<sChromeLc>>

Mutations == {"hide_process", "unhide_process", "hide_pid", "unhide_pid",
              "rename_process", "remove_rename", "clear_all"}

\* How often x occurs in the sequence v.
Occurrences(v, x) == Cardinality({ i \in 1..Len(v) : v[i] = x })

\* C12: a mutation called twice in a row with the same arguments leaves the
\* configuration as the first call left it; hide_process and hide_pid of an
\* entry that is there change nothing, and no call adds a second copy of an
\* entry.
C12_MutationsIdempotent ==
    /\ (Len(calls) = 2 /\ calls[1].op \in Mutations /\ calls[2].op = calls[1].op
          /\ calls[2].arg = calls[1].arg) =>
             calls[2].after = calls[1].after
    /\ \A i \in 1..Len(calls) :
          /\ (calls[i].op = "hide_process"
                /\ VecContains(calls[i].before.hidden_processes, calls[i].arg[1])) =>
                   calls[i].after = calls[i].before
          /\ (calls[i].op = "hide_pid"
                /\ VecContains(calls[i].before.hidden_pids, calls[i].arg[1])) =>
                   calls[i].after = calls[i].before
          /\ \A name \in PolicyNames :
                Occurrences(calls[i].after.hidden_processes, name) <= 1
          /\ \A pid \in PolicyPids :
                Occurrences(calls[i].after.hidden_pids, pid) <= 1

C12_Witness ==
    /\ Len(calls) = 2
    /\ calls[1].op = "hide_process"
    /\ calls[2].op = "hide_process"
    /\ calls[1].arg = <<sSsh>>
    /\ calls[2].arg = <<sSsh>>
    /\ calls[1].before.hidden_processes = <<sChromeLc>>
    /\ calls[2].after.hidden_processes = <<sChromeLc, sSsh>>

\* The rename keys that are a case-insensitive substring of the raw name.
PartialKeys(config, raw) ==
    { k \in DOMAIN config.renamed_processes :
        contains(to_lowercase(raw), to_lowercase(k)) }

\* C13: get_display_name(raw) is the value under the key raw when raw is a
\* key, whatever other keys are substrings of raw; else the value under a
\* key that is a case-insensitive substring of raw when there is one; else
\* raw.
C13_ExactThenPartialThenRaw ==
    \A i \in 1..Len(calls) :
        calls[i].op = "get_display_name" =>
            LET m   == calls[i].before.renamed_processes
                raw == calls[i].arg[1]
                out == calls[i].out[1]
            IN  /\ raw \in DOMAIN m => out = m[raw]
                /\ (raw \notin DOMAIN m /\ PartialKeys(calls[i].before, raw) # {}) =>
                      \E k \in PartialKeys(calls[i].before, raw) : out = m[k]
                /\ PartialKeys(calls[i].before, raw) = {} => out = raw

C13_Witness ==
    /\ Len(calls) = 2
    /\ stealth[1].renamed_processes =
          [k \in {sChromeLc, sChromeExe} |-> IF k = sChromeLc THEN sBrowser ELSE sMiner]
    /\ iter_order = <<sChromeLc, sChromeExe>>
    /\ calls[1].op = "get_display_name"
    /\ calls[1].arg = <<sChromeExeUc>>
    /\ calls[1].out = Some(sBrowser)
    /\ calls[2].op = "get_display_name"
    /\ calls[2].arg = <<sChromeExe>>
    /\ calls[2].out = Some(sMiner)

Position(processes, pid) == CHOOSE i \in 1..Len(processes) : processes[i].pid = pid

\* C15: the rendered rows are min(20, n) of the n processes of the
\* snapshot, in non-increasing cpu_usage, rows of equal cpu_usage in the
\* order of the snapshot, and every process left out comes after the last
\* row in that order.
C15_TopRowsStableByCpu ==
    pc = "detect" =>
        LET ps   == snapshot[1].processes
            rows == screen.rows
            Before(p, q) ==
                \/ p.cpu_usage > q.cpu_usage
                \/ /\ p.cpu_usage = q.cpu_usage
                   /\ Position(ps, p.pid) < Position(ps, q.pid)
        IN  /\ Len(rows) = (IF Len(ps) < 20 THEN Len(ps) ELSE 20)
            /\ \A i \in 1..Len(rows) : \E j \in 1..Len(ps) : ps[j] = rows[i]
            /\ \A i, j \in 1..Len(rows) : i < j => Before(rows[i], rows[j])
            /\ \A j \in 1..Len(ps) :
                  (\A i \in 1..Len(rows) : rows[i] # ps[j]) =>
                      Before(rows[Len(rows)], ps[j])

C15_Witness ==
    /\ pc = "detect"
    /\ Len(snapshot[1].processes) = 22
    /\ Len(screen.rows) = 20
    /\ screen.rows[1].cpu_usage = screen.rows[2].cpu_usage
    /\ screen.rows[1].pid < screen.rows[2].pid
    /\ screen.rows[20].cpu_usage < screen.rows[1].cpu_usage

\* C16: a successful save command writes one file, named by and holding the
\* snapshot built in the cycle in which the command is handled, leaves every
\* other file, the output path and the history as they are, and the session
\* is still Running.
C16_SavePersistsLatestOnly ==
    [][(pc = "poll" /\ pending # <<>> /\ Head(pending).key = "s"
          /\ Len(pending') < Len(pending) /\ pc' # "exit_fail") =>
          LET latest == snapshots[Len(snapshots)]
          IN  /\ Len(snapshots) = count.sample
              /\ latest.timestamp = now
              /\ DOMAIN snap_files' = (DOMAIN snap_files) \cup {latest.timestamp}
              /\ snap_files'[latest.timestamp] = latest
              /\ \A t \in (DOMAIN snap_files) \ {latest.timestamp} :
                    snap_files'[t] = snap_files[t]
              /\ out_file' = out_file
              /\ bulk_write' = bulk_write
              /\ snapshots' = snapshots
              /\ State' = "Running"]_vars

C16_Witness ==
    /\ pc = "sleep"
    /\ Len(snapshots) = 2
    /\ DOMAIN snap_files = {2}
    /\ snap_files[2] = snapshots[2]
    /\ snapshots[1].processes # snapshots[2].processes

\* A PID line with a character that is no digit, or no character at all.
NotNumeric(line) ==
    trim(line) = <<>> \/ \E i \in 1..Len(trim(line)) : ~IsDigit(trim(line)[i])

MalformedExchange(io) ==
    \/ /\ trim(io.choice) \in {<<"2">>, <<"5">>}
       /\ io.lines # <<>>
       /\ NotNumeric(io.lines[1])
    \/ trim(io.choice) \notin {<<"1">>, <<"2">>, <<"3">>, <<"4">>, <<"5">>,
                               <<"6">>, <<"7">>, <<"8">>, <<"9">>}

\* C17: a menu exchange with a non-numeric PID or an unknown option prints
\* the error message, changes neither the policy nor the policy file and
\* leaves the menu running.
C17_MalformedInputKeepsMenu ==
    [][(pc = "menu" /\ menu_io' # menu_io /\ MalformedExchange(menu_io')) =>
          /\ menu_io'.message \in {"Invalid PID format", "Invalid option"}
          /\ stealth' = stealth
          /\ iter_order' = iter_order
          /\ policy_file' = policy_file
          /\ pc' = "menu"
          /\ result' = "none"]_vars

C17_Witness ==
    /\ pc = "menu"
    /\ menu_io = Exchange(Choice("2"), <<Line(<<"x","1">>)>>, "Invalid PID format")
    /\ stealth[1].hidden_pids = <<4242, 10>>

C19_VerboseSubRowsIndependent ==
    \A i \in 1..Len(screen.rows) :
        /\ (\E j \in 1..Len(screen.sub[i]) : screen.sub[i][j].kind = "CMD")
              <=> (args.verbose /\ screen.rows[i].cmd # <<>>)
        /\ (\E j \in 1..Len(screen.sub[i]) : screen.sub[i][j].kind = "EXE")
              <=> (args.verbose /\ screen.rows[i].exe_path # None)

\* C20: rendering leaves the snapshot as collected, and every snapshot of
\* the history lists its processes in the enumeration order of the metrics
\* source, as appended.
C20_SnapshotKeepsEnumerationOrder ==
    /\ [](\A snap \in HeldSnapshots :
             snap.processes = Enumerate(ProcTable, Pids(snap.processes)))
    /\ [][/\ pc = "display" => snapshot' = snapshot
          /\ (pc = "detect" /\ pc' # "detect") =>
                snapshots' = Append(snapshots, snapshot[1])]_vars

C20_Witness ==
    /\ pc = "poll"
    /\ Len(snapshots[Len(snapshots)].processes) = 3
    /\ snapshots[Len(snapshots)].processes[1].pid = 10
    /\ screen.rows[1].pid = 77

\* C21: handling the clear key, any key other than 'q', 's' and 'c', or an
\* event that is no key leaves the history and previous_processes as they
\* are, writes no file, and the session is still Running; the clear key
\* blanks the screen and the others leave it.
C21_ClearAndOtherKeysOnlyPresent ==
    [][(pc = "poll" /\ pending # <<>> /\ Head(pending).key \notin {"q", "s"}
          /\ Len(pending') < Len(pending)) =>
             /\ snapshots' = snapshots
             /\ previous_processes' = previous_processes
             /\ snap_files' = snap_files
             /\ out_file' = out_file
             /\ bulk_write' = bulk_write
             /\ policy_file' = policy_file
             /\ State' = "Running"
             /\ screen' = (IF Head(pending).key = "c" THEN BlankScreen ELSE screen)]_vars

C21_Witness ==
    /\ pc = "sleep"
    /\ pending = <<>>
    /\ count.poll = 2
    /\ screen = BlankScreen
    /\ Len(snapshots) = 2
    /\ Len(snapshots[2].processes) = 3
    /\ DOMAIN previous_processes = {10, 4242, 77}
    /\ snap_files = EmptyMap

\* The menu choices that call a mutation of the configuration.
MutatingChoices ==
    { Choice("1"), Choice("2"), Choice("3"), Choice("4"), Choice("5"),
      Choice("6"), Choice("8") }

\* C22: a configuration once loaded changes only in a menu exchange with a
\* mutating choice; the policy file changes only when it is absent at the
\* load, to the default of three empty fields, or at the menu's choice "9",
\* to the manager's configuration; the menu is left only by choice "9", and
\* when main then returns Ok the file holds the configuration.
C22_PolicyWrittenAtLoadAndSave ==
    /\ [][/\ (stealth # None /\ stealth' # stealth) =>
                /\ pc = "menu"
                /\ pc' = "menu"
                /\ menu_io'.choice \in MutatingChoices
          /\ policy_file' # policy_file =>
                \/ /\ pc = "start"
                   /\ policy_file.kind = "absent"
                   /\ policy_file'.kind = "valid"
                   /\ policy_file'.config.hidden_processes = <<>>
                   /\ DOMAIN policy_file'.config.renamed_processes = {}
                   /\ policy_file'.config.hidden_pids = <<>>
                \/ /\ pc = "menu"
                   /\ menu_io'.choice = Choice("9")
                   /\ policy_file'.kind = "valid"
                   /\ policy_file'.config = stealth[1]
          /\ (pc = "menu" /\ pc' # "menu") =>
                /\ menu_io'.choice = Choice("9")
                /\ stealth' = stealth]_vars
    /\ []((pc = "exit_editor" /\ result = "ok") =>
             (policy_file.kind = "valid" /\ policy_file.config = stealth[1]))

C22_Witness ==
    /\ pc = "exit_editor"
    /\ result = "ok"
    /\ stealth[1].hidden_processes = <<sSsh>>
    /\ stealth[1].hidden_pids = <<>>
    /\ policy_file.kind = "valid"
    /\ policy_file.config = stealth[1]

\* C23: previous_processes is empty before the first snapshot is appended
\* and from then on holds exactly the processes of the last snapshot of the
\* history, by PID, with --alert and without it.
C23_PreviousIsLastSnapshot ==
    /\ snapshots = <<>> => DOMAIN previous_processes = {}
    /\ snapshots # <<>> =>
          LET last == snapshots[Len(snapshots)].processes
          IN  /\ DOMAIN previous_processes = { last[i].pid : i \in 1..Len(last) }
              /\ \A i \in 1..Len(last) : previous_processes[last[i].pid] = last[i]

C23_Witness ==
    /\ ~args.alert
    /\ pc = "poll"
    /\ Len(snapshots) = 2
    /\ Len(snapshots[1].processes) = 3
    /\ Len(snapshots[2].processes) = 1
    /\ DOMAIN previous_processes = {77}

====
